---- MODULE Spec2Model ----
(***************************************************************************)
(* Five-joint servo arm: the two sketches of the repository,               *)
(*   Main_Code/Main_Code.ino  (tasks 1..4 and reset, gripper not clamped)  *)
(*   unnamed/part_000         (reset and debug move, gripper clamped)      *)
(* modelled as one state machine whose variable "variant" says which       *)
(* sketch is running.  moveToPose is modelled statement by statement:      *)
(* entry (snapshot, deltas, step count), one action per loop iteration,    *)
(* the assignment of currentPose, the final writePose.  The float          *)
(* arithmetic of the interpolation is IEEE-754 binary32, computed here     *)
(* with integers only.                                                     *)
(***************************************************************************)
EXTENDS Integers, Sequences, FiniteSets

VARIABLES
  variant,       \* which sketch runs: "Main_Code" or "part_000"
  pc,            \* position of the single control thread
  lastCmd,       \* char cmd of loop()
  params,        \* String params of loop(), as a sequence of tokens
  out,           \* lines printed on Serial during the current loop() pass
  todo,          \* calls of the running task/reset body still to make
  currentPose,   \* Pose currentPose
  servo,         \* angle last written to each of the five Servo objects
  target,        \* moveToPose: argument target
  stepSize,      \* moveToPose: argument stepSize
  speedDelayMs,  \* moveToPose: argument speedDelayMs
  start,         \* moveToPose: local start
  delta,         \* moveToPose: locals deltaBase .. deltaGripper
  maxDelta,      \* moveToPose: local maxDelta
  steps,         \* moveToPose: local steps
  i,             \* moveToPose: loop index i
  lastIn,        \* the Pose handed to the latest writePose call
  prevInter,     \* the intermediate Pose of the step before the latest one
  prevServo,     \* servo angles when the current moveToPose was entered
  writes,        \* writePose calls made by the current moveToPose
  delays,        \* delay() calls made by the current moveToPose
  assigns,       \* assignments to currentPose made by the current moveToPose
  moved,         \* TRUE once some moveToPose has returned
  divZero        \* TRUE when the current moveToPose evaluated maxDelta / 0

vars == <<variant, pc, lastCmd, params, out, todo, currentPose, servo, target,
          stepSize, speedDelayMs, start, delta, maxDelta, steps, i, lastIn,
          prevInter, prevServo, writes, delays, assigns, moved, divZero>>

\* ------------------------------------------------------------------ bounds
MaxTokens == 6        \* longest debug line tried, in tokens
MaxStepSize == 3      \* direct calls use stepSize in -1 .. MaxStepSize (and 10)

\* ------------------------------------------------------- configuration
Variants == {"Main_Code", "part_000"}
Joints == {"base", "shoulder", "elbow", "wrist", "gripper"}

Pose(b, s, e, w, g) ==
  [base |-> b, shoulder |-> s, elbow |-> e, wrist |-> w, gripper |-> g]

BASE_MIN(v) == IF v = "Main_Code" THEN 10 ELSE 0
BASE_MAX(v) == IF v = "Main_Code" THEN 170 ELSE 180
SHOULDER_MIN(v) == IF v = "Main_Code" THEN 20 ELSE 0
SHOULDER_MAX(v) == IF v = "Main_Code" THEN 160 ELSE 180
ELBOW_MIN(v) == IF v = "Main_Code" THEN 10 ELSE 0
ELBOW_MAX(v) == IF v = "Main_Code" THEN 170 ELSE 180
WRIST_MIN(v) == IF v = "Main_Code" THEN 10 ELSE 0
WRIST_MAX(v) == IF v = "Main_Code" THEN 170 ELSE 180
GRIPPER_OPEN(v) == IF v = "Main_Code" THEN 90 ELSE 0
GRIPPER_CLOSE(v) == IF v = "Main_Code" THEN 40 ELSE 100

homePose(v) ==
  IF v = "Main_Code" THEN Pose(90, 90, 90, 90, GRIPPER_OPEN(v))
                     ELSE Pose(180, 0, 100, 0, GRIPPER_OPEN(v))

\* Main_Code.ino pose table: row n is {aboveObj, grabObj, liftObj, aboveBox, release}
TaskPoses(n) ==
  LET o == GRIPPER_OPEN("Main_Code")
      c == GRIPPER_CLOSE("Main_Code")
  IN  CASE n = 1 -> [aboveObj |-> Pose(60, 70, 110, 80, o), grabObj |-> Pose(60, 80, 120, 80, o),
                     liftObj |-> Pose(60, 60, 100, 80, c), aboveBox |-> Pose(100, 65, 105, 80, c),
                     release |-> Pose(100, 65, 105, 80, o)]
        [] n = 2 -> [aboveObj |-> Pose(40, 75, 110, 80, o), grabObj |-> Pose(40, 85, 120, 80, o),
                     liftObj |-> Pose(40, 65, 100, 80, c), aboveBox |-> Pose(120, 60, 100, 80, c),
                     release |-> Pose(120, 60, 100, 80, o)]
        [] n = 3 -> [aboveObj |-> Pose(70, 70, 110, 80, o), grabObj |-> Pose(70, 80, 120, 80, o),
                     liftObj |-> Pose(70, 60, 100, 80, c), aboveBox |-> Pose(140, 60, 100, 80, c),
                     release |-> Pose(140, 60, 100, 80, o)]
        [] n = 4 -> [aboveObj |-> Pose(85, 70, 110, 80, o), grabObj |-> Pose(85, 80, 120, 80, o),
                     liftObj |-> Pose(85, 60, 100, 80, c), aboveBox |-> Pose(150, 60, 100, 80, c),
                     release |-> Pose(150, 60, 100, 80, o)]

\* ------------------------------------------------------- C++ int helpers
abs(x) == IF x < 0 THEN -x ELSE x

\* C++ int division: the quotient is truncated toward zero (b # 0)
IntDiv(a, b) ==
  IF (a >= 0) = (b > 0) THEN abs(a) \div abs(b) ELSE -(abs(a) \div abs(b))

max5(a, b, c, d, e) ==
  LET m1 == IF b > a THEN b ELSE a
      m2 == IF c > m1 THEN c ELSE m1
      m3 == IF d > m2 THEN d ELSE m2
  IN  IF e > m3 THEN e ELSE m3

\* fault variant: the upper limit is not applied
clampAngle_NoUpper(angle, minVal, maxVal) ==
  IF angle < minVal THEN minVal ELSE angle

clampAngle(angle, minVal, maxVal) ==
  IF angle < minVal THEN minVal
  ELSE IF angle > maxVal THEN maxVal
  ELSE angle

\* the five values writePose hands to the Servo objects
writePose(v, p) ==
  [base     |-> clampAngle(p.base, BASE_MIN(v), BASE_MAX(v)),
   shoulder |-> clampAngle(p.shoulder, SHOULDER_MIN(v), SHOULDER_MAX(v)),
   elbow    |-> clampAngle(p.elbow, ELBOW_MIN(v), ELBOW_MAX(v)),
   wrist    |-> clampAngle(p.wrist, WRIST_MIN(v), WRIST_MAX(v)),
   gripper  |-> IF v = "Main_Code" THEN p.gripper
                ELSE clampAngle(p.gripper, GRIPPER_OPEN(v), GRIPPER_CLOSE(v))]

\* --------------------------------------------- IEEE-754 binary32 (float)
\* A float is [sgn, man, exp] with value sgn * man * 2^exp, where man = 0 or
\* 2^23 <= man < 2^24.  Every operation rounds to nearest, ties to even.

\* number of binary digits of n >= 0
RECURSIVE bits(_)
bits(n) == IF n = 0 THEN 0 ELSE 1 + bits(n \div 2)

\* q rounded up when the dropped part r exceeds half, or equals it with q odd
RoundEven(q, r, half) ==
  IF r > half \/ (r = half /\ q % 2 = 1) THEN q + 1 ELSE q

\* a mantissa that rounding carried to 2^24 is renormalised
Normal(sgn, q, e) ==
  IF q = 2^24 THEN [sgn |-> sgn, man |-> 2^23, exp |-> e + 1]
  ELSE [sgn |-> sgn, man |-> q, exp |-> e]

\* n more quotient bits of r / d by long division (r < d): <<quotient, remainder>>
RECURSIVE Quot(_, _, _)
Quot(r, d, n) ==
  IF n = 0 THEN <<0, r>>
  ELSE LET p == Quot(r, d, n - 1)
           b == IF 2 * p[2] >= d THEN 1 ELSE 0
       IN  <<2 * p[1] + b, 2 * p[2] - b * d>>

\* (float)a / (float)n for ints 1 <= a <= n < 2^24 (both casts are exact)
FloatDiv(a, n) ==
  LET sh == bits(n) - bits(a)
      k  == IF a * 2^sh >= n THEN sh ELSE sh + 1
      p  == Quot(a * 2^k - n, n, 23)
  IN  Normal(1, RoundEven(2^23 + p[1], 2 * p[2], n), -23 - k)

\* d * t for an int d with |d| < 2^12 (converted exactly) and a float t;
\* the 36-bit product is kept in two limbs H * 2^12 + L
FloatMul(d, t) ==
  IF d = 0 \/ t.man = 0 THEN [sgn |-> 1, man |-> 0, exp |-> 0]
  ELSE LET D   == abs(d)
           sgn == IF d > 0 THEN t.sgn ELSE -t.sgn
           mh  == t.man \div 4096
           ml  == t.man % 4096
           H   == D * mh + (D * ml) \div 4096
           L   == (D * ml) % 4096
           s   == bits(H) - 12
           q   == IF s <= 12 THEN H * 2^(12 - s) + L \div 2^s
                  ELSE H \div 2^(s - 12)
           r   == IF s <= 12 THEN L % 2^s
                  ELSE (H % 2^(s - 12)) * 4096 + L
       IN  IF s = 0 THEN [sgn |-> sgn, man |-> H * 4096 + L, exp |-> t.exp]
           ELSE Normal(sgn, RoundEven(q, r, 2^(s - 1)), t.exp + s)

\* integer part of |p|
IntPart(p) ==
  IF p.exp >= 0 THEN p.man * 2^p.exp
  ELSE IF -p.exp >= 24 THEN 0
  ELSE p.man \div 2^(-p.exp)

\* (int)p : conversion of a float to int drops the fraction (toward zero)
IntCast(p) == p.sgn * IntPart(p)

\* int x = a + p : the int a is converted to float, the sum is rounded to
\* float, and the assignment to an int drops the fraction.  With G the integer
\* part of the exact |sum|, the rounded sum is G + 1 exactly when the exact sum
\* is within half a unit in the last place of G + 1.
IntOfSum(a, p) ==
  LET n  == a + p.sgn * IntPart(p)
      f  == -p.exp
      pf == IF f >= 24 THEN p.man ELSE p.man % 2^f
  IN  IF p.exp >= 0 \/ p.man = 0 THEN n
      ELSE IF pf = 0 THEN n
      ELSE LET same == (p.sgn > 0 /\ n >= 0) \/ (p.sgn < 0 /\ n <= 0)
               ssgn == IF (p.sgn > 0 /\ n >= 0) \/ (p.sgn < 0 /\ n >= 1) THEN 1 ELSE -1
               G    == IF same THEN abs(n) ELSE abs(n) - 1
               k    == f - 25 + bits(G)
               up   == IF same THEN f <= 24 /\ k >= 0 /\ 2^f - pf <= 2^k
                       ELSE k >= 24 \/ (k >= 0 /\ pf <= 2^k)
           IN  ssgn * (IF up THEN G + 1 ELSE G)

\* ---------------------------------------------------------- moveToPose
\* fault variant: the quotient is rounded up
StepsOf_Ceil(md, ss) ==
  LET q == IntDiv(md + ss - 1, ss)
  IN  IF q < 1 THEN 1 ELSE q

\* fault variant: the guard "if (steps < 1) steps = 1" is missing
StepsOf_NoGuard(md, ss) == IntDiv(md, ss)

\* int steps = maxDelta / stepSize; if (steps < 1) steps = 1;   (stepSize # 0)
StepsOf(md, ss) ==
  LET q == IntDiv(md, ss)
  IN  IF q < 1 THEN 1 ELSE q

\* What maxDelta / 0 can do: the behaviour is undefined.  The build either
\* traps (the sketch stops) or the division delivers some int; the guard
\* "if (steps < 1) steps = 1" then runs on that int.
DivByZero ==
  {[trap |-> TRUE, q |-> 0], [trap |-> FALSE, q |-> -1], [trap |-> FALSE, q |-> 0]}

\* fault variant: the fraction is k / (n + 1), so the last iteration stops short
Intermediate_Short(v, st, dl, k, n) ==
  LET t == FloatDiv(k, n + 1)
  IN  [j \in Joints |->
         IF v = "Main_Code" THEN IntOfSum(st[j], FloatMul(dl[j], t))
                            ELSE st[j] + IntCast(FloatMul(dl[j], t))]

\* the Pose intermediate of loop iteration k of n, from the snapshot st and
\* the deltas dl:  float t = (float)k / (float)n;
\*   Main_Code.ino:  intermediate.x = start.x + deltaX * t;        (sum in float)
\*   part_000:       intermediate.x = start.x + (int)(deltaX * t); (sum in int)
Intermediate(v, st, dl, k, n) ==
  LET t == FloatDiv(k, n)
  IN  [j \in Joints |->
         IF v = "Main_Code" THEN IntOfSum(st[j], FloatMul(dl[j], t))
                            ELSE st[j] + IntCast(FloatMul(dl[j], t))]

\* entry of moveToPose(tg, dly, ss) up to the first loop test
MoveBegin(tg, dly, ss) ==
  LET dl == [j \in Joints |-> tg[j] - currentPose[j]]
      md == max5(abs(dl.base), abs(dl.shoulder), abs(dl.elbow),
                 abs(dl.wrist), abs(dl.gripper))
  IN  /\ target' = tg
      /\ speedDelayMs' = dly
      /\ stepSize' = ss
      /\ start' = currentPose
      /\ delta' = dl
      /\ maxDelta' = md
      /\ IF ss = 0
           THEN /\ divZero' = TRUE
                /\ \E oc \in DivByZero :
                     /\ pc' = IF oc.trap THEN "crashed" ELSE "loop"
                     /\ steps' = IF oc.q < 1 THEN 1 ELSE oc.q
           ELSE /\ divZero' = FALSE
                /\ pc' = "loop"
                /\ steps' = StepsOf(md, ss)
      /\ i' = 1
      /\ writes' = 0
      /\ delays' = 0
      /\ assigns' = 0
      /\ prevServo' = servo
      /\ prevInter' = currentPose
      /\ UNCHANGED <<variant, currentPose, servo, lastIn, moved>>

\* fault variant: each iteration also stores its intermediate pose in currentPose
MoveStep_Tracking ==
  /\ pc = "loop"
  /\ i <= steps
  /\ LET im == Intermediate(variant, start, delta, i, steps)
     IN  /\ servo' = writePose(variant, im)
         /\ lastIn' = im
         /\ currentPose' = im
  /\ prevInter' = IF i = 1 THEN start ELSE lastIn
  /\ writes' = writes + 1
  /\ delays' = delays + 1
  /\ i' = i + 1
  /\ UNCHANGED <<variant, pc, lastCmd, params, out, todo, target,
                 stepSize, speedDelayMs, start, delta, maxDelta, steps,
                 prevServo, assigns, moved, divZero>>

\* one iteration of the for loop: intermediate pose, writePose, delay, i++
MoveStep ==
  /\ pc = "loop"
  /\ i <= steps
  /\ LET im == Intermediate(variant, start, delta, i, steps)
     IN  /\ servo' = writePose(variant, im)
         /\ lastIn' = im
  /\ prevInter' = IF i = 1 THEN start ELSE lastIn
  /\ writes' = writes + 1
  /\ delays' = delays + 1
  /\ i' = i + 1
  /\ UNCHANGED <<variant, pc, lastCmd, params, out, todo, currentPose, target,
                 stepSize, speedDelayMs, start, delta, maxDelta, steps,
                 prevServo, assigns, moved, divZero>>

\* fault variant: currentPose receives the clamped angles that were written
MoveSnap_Clamped ==
  /\ pc = "loop"
  /\ i > steps
  /\ currentPose' = writePose(variant, target)
  /\ assigns' = assigns + 1
  /\ pc' = "write"
  /\ UNCHANGED <<variant, lastCmd, params, out, todo, servo, target, stepSize,
                 speedDelayMs, start, delta, maxDelta, steps, i, lastIn,
                 prevInter, prevServo, writes, delays, moved, divZero>>

\* loop exit: currentPose = target;
MoveSnap ==
  /\ pc = "loop"
  /\ i > steps
  /\ currentPose' = target
  /\ assigns' = assigns + 1
  /\ pc' = "write"
  /\ UNCHANGED <<variant, lastCmd, params, out, todo, servo, target, stepSize,
                 speedDelayMs, start, delta, maxDelta, steps, i, lastIn,
                 prevInter, prevServo, writes, delays, moved, divZero>>

\* writePose(currentPose); and return to the caller
MoveFinalWrite ==
  /\ pc = "write"
  /\ servo' = writePose(variant, currentPose)
  /\ lastIn' = currentPose
  /\ writes' = writes + 1
  /\ moved' = TRUE
  /\ pc' = "next"
  /\ UNCHANGED <<variant, lastCmd, params, out, todo, currentPose, target,
                 stepSize, speedDelayMs, start, delta, maxDelta, steps, i,
                 prevInter, prevServo, delays, assigns, divZero>>

\* ------------------------------------------------- tasks, reset, debug
MoveCall(p, dly, ss) == [op |-> "moveToPose", pose |-> p, delay |-> dly, step |-> ss]
GripperCall(name, dly) == [op |-> name, pose |-> <<>>, delay |-> dly, step |-> 2]

\* the calls of task1() .. task4(), in order
TaskCalls(n) ==
  LET t == TaskPoses(n)
  IN  << MoveCall(t.aboveObj, 10, 3), MoveCall(t.grabObj, 15, 2),
         GripperCall("closeGripper", 10), MoveCall(t.liftObj, 10, 2),
         MoveCall(t.aboveBox, 10, 3), MoveCall(t.release, 15, 2),
         GripperCall("openGripper", 10), MoveCall(homePose("Main_Code"), 10, 3) >>

\* the calls of resetArm()
ResetCalls(v) == << MoveCall(homePose(v), 10, 3) >>

\* what the task/reset body prints after its last move
DoneMsgs(v, cmd) ==
  CASE cmd = "1" -> << "Task 1 done." >>
    [] cmd = "2" -> << "Task 2 done." >>
    [] cmd = "3" -> << "Task 3 done." >>
    [] cmd = "4" -> << "Task 4 done." >>
    [] cmd \in {"r", "R"} /\ v = "part_000" -> << "At home pose." >>
    [] OTHER -> << >>

\* what task n prints first
TaskMsg(n) ==
  << "Running Task 1 (cube)...", "Running Task 2 (cylinder)...",
     "Running Task 3 (hat)...", "Running Task 4 (boat)..." >>[n]

\* the default case's first line, and the line that ends every handled command
UnknownMsg(v) ==
  IF v = "Main_Code" THEN "Unknown command. Use 1,2,3,4,r." ELSE "Unknown command."

ReadyMsg(v) ==
  IF v = "Main_Code" THEN "Ready for next command: 1,2,3,4,r"
                     ELSE "Ready for next command."

FormatMsg == "Format error! Use: d base shoulder elbow wrist gripper"

\* the command characters each sketch's switch has a case for
Recognized(v) ==
  IF v = "Main_Code" THEN {"1", "2", "3", "4", "r", "R"} ELSE {"r", "R", "d", "D"}

\* characters tried as Serial input
Cmds == {"\n", "\r", "1", "2", "3", "4", "r", "R", "d", "D", "x", " "}

\* sscanf(line, "%d %d %d %d %d", ...): conversions stop at the first token
\* that is no integer; the result is the number of values stored (at most 5),
\* or EOF (-1) when the input ends before the first conversion.
\* A line is a sequence of whitespace-separated tokens: a decimal integer
\* [int |-> TRUE, val |-> n] or any other word [int |-> FALSE, val |-> 0].
Num(n) == [int |-> TRUE, val |-> n]
Word == [int |-> FALSE, val |-> 0]

RECURSIVE LeadingInts(_)
LeadingInts(line) ==
  IF line = << >> THEN 0
  ELSE IF Head(line).int THEN 1 + LeadingInts(Tail(line))
  ELSE 0

\* fault variant: a token that is missing or no integer is read as 0
sscanf_Lenient(line) ==
  [parsed |-> 5,
   vals   |-> [x \in 1 .. 5 |-> IF x <= Len(line) /\ line[x].int THEN line[x].val ELSE 0]]

sscanf(line) ==
  LET k == LeadingInts(line)
      n == IF k > 5 THEN 5 ELSE k
  IN  [parsed |-> IF line = << >> THEN -1 ELSE n,
       vals   |-> [x \in 1 .. n |-> line[x].val]]

\* poses tried as moveToPose targets by the debug command and by direct
\* calls: the spec's scenarios, out-of-range components, uneven deltas, and a
\* 22-step move from part_000's home pose
TestPoses ==
  { Pose(0, 0, 0, 0, 0), Pose(100, 0, 0, 0, 0), Pose(90, 90, 90, 90, 90),
    Pose(95, 90, 90, 90, 90), Pose(200, -5, 5, 90, 200), Pose(44, 30, 7, 93, 60),
    Pose(136, 0, 100, 0, 0) }

\* debug lines tried: the first n tokens of a pose's five numbers followed
\* by more numbers, with token k (if any) replaced by a word
DebugLine(p, n, k) ==
  LET full == << p.base, p.shoulder, p.elbow, p.wrist, p.gripper >>
  IN  [x \in 1 .. n |-> IF x = k THEN Word
                        ELSE IF x <= 5 THEN Num(full[x]) ELSE Num(7)]

DebugLines ==
  { DebugLine(p, n, k) : p \in TestPoses, n \in 0 .. MaxTokens, k \in 0 .. MaxTokens }

\* ------------------------------------------------------------ the sketch
Frame0(v) ==
  /\ target = homePose(v)
  /\ stepSize = 2
  /\ speedDelayMs = 10
  /\ start = homePose(v)
  /\ delta = [j \in Joints |-> 0]
  /\ maxDelta = 0
  /\ steps = 0
  /\ i = 0
  /\ prevInter = homePose(v)
  /\ writes = 0
  /\ delays = 0
  /\ assigns = 0
  /\ moved = FALSE
  /\ divZero = FALSE

\* the globals as constructed, before setup() runs
Init ==
  /\ variant \in Variants
  /\ pc = "setup"
  /\ lastCmd = ""
  /\ params = << >>
  /\ out = << >>
  /\ todo = << >>
  /\ currentPose = homePose(variant)
  /\ servo = [j \in Joints |-> "unwritten"]
  /\ lastIn = homePose(variant)
  /\ prevServo = [j \in Joints |-> "unwritten"]
  /\ Frame0(variant)

\* setup(): writePose(homePose); delay(1000); banner
Setup ==
  /\ pc = "setup"
  /\ servo' = writePose(variant, homePose(variant))
  /\ lastIn' = homePose(variant)
  /\ out' = << "Arm ready!" >>
  /\ pc' = "idle"
  /\ UNCHANGED <<variant, lastCmd, params, todo, currentPose, target, stepSize,
                 speedDelayMs, start, delta, maxDelta, steps, i, prevInter,
                 prevServo, writes, delays, assigns, moved, divZero>>

frame == <<target, stepSize, speedDelayMs, start, delta, maxDelta, steps, i,
           prevInter, prevServo, writes, delays, assigns, divZero>>

\* loop(): '\n' or '\r' is dropped without a word
LoopSkip ==
  /\ pc = "idle"
  /\ \E cmd \in {"\n", "\r"} : lastCmd' = cmd
  /\ UNCHANGED <<variant, pc, params, out, todo, currentPose, servo, lastIn, moved>>
  /\ UNCHANGED frame

\* loop(): case '1' .. '4' of Main_Code.ino
LoopTask ==
  /\ pc = "idle"
  /\ variant = "Main_Code"
  /\ \E n \in 1 .. 4 :
       /\ lastCmd' = <<"1", "2", "3", "4">>[n]
       /\ todo' = TaskCalls(n)
       /\ out' = << "Received command: ", TaskMsg(n) >>
  /\ pc' = "next"
  /\ UNCHANGED <<variant, params, currentPose, servo, lastIn, moved>>
  /\ UNCHANGED frame

\* loop(): case 'r', 'R'
LoopReset ==
  /\ pc = "idle"
  /\ \E cmd \in {"r", "R"} : lastCmd' = cmd
  /\ todo' = ResetCalls(variant)
  /\ out' = << "Received command: ", "Resetting to home..." >>
  /\ pc' = "next"
  /\ UNCHANGED <<variant, params, currentPose, servo, lastIn, moved>>
  /\ UNCHANGED frame

\* loop(): case 'd', 'D' of part_000: params = Serial.readStringUntil('\n')
LoopDebug ==
  /\ pc = "idle"
  /\ variant = "part_000"
  /\ \E cmd \in {"d", "D"} : lastCmd' = cmd
  /\ \E line \in DebugLines : params' = line
  /\ out' = << "Received command: " >>
  /\ pc' = "debug"
  /\ UNCHANGED <<variant, todo, currentPose, servo, lastIn, moved>>
  /\ UNCHANGED frame

\* debugMove(params): a line that does not give five ints is reported and
\* dropped (loop() then prints its ready line); five ints become the target
DebugMove ==
  /\ pc = "debug"
  /\ LET r == sscanf(params)
     IN  IF r.parsed # 5
           THEN /\ out' = out \o << FormatMsg, ReadyMsg(variant) >>
                /\ pc' = "idle"
                /\ UNCHANGED <<variant, currentPose, servo, lastIn, moved>>
                /\ UNCHANGED frame
           ELSE /\ out' = Append(out, "DEBUG MOVE")
                /\ MoveBegin(Pose(r.vals[1], r.vals[2], r.vals[3], r.vals[4], r.vals[5]), 8, 2)
  /\ params' = << >>
  /\ UNCHANGED <<lastCmd, todo>>

\* loop(): default case, then the ready line
LoopUnknown ==
  /\ pc = "idle"
  /\ \E cmd \in Cmds \ (Recognized(variant) \cup {"\n", "\r"}) : lastCmd' = cmd
  /\ out' = << "Received command: ", UnknownMsg(variant), ReadyMsg(variant) >>
  /\ UNCHANGED <<variant, pc, params, todo, currentPose, servo, lastIn, moved>>
  /\ UNCHANGED frame

\* the running task/reset body makes its next call
Call ==
  /\ pc = "next"
  /\ todo # << >>
  /\ LET c == Head(todo)
     IN  CASE c.op = "moveToPose" -> MoveBegin(c.pose, c.delay, c.step)
           [] c.op = "openGripper" ->
                MoveBegin([currentPose EXCEPT !.gripper = GRIPPER_OPEN(variant)], c.delay, 2)
           [] c.op = "closeGripper" ->
                MoveBegin([currentPose EXCEPT !.gripper = GRIPPER_CLOSE(variant)], c.delay, 2)
  /\ todo' = Tail(todo)
  /\ UNCHANGED <<lastCmd, params, out>>

\* the body has returned: its closing message, break, the ready line
CommandDone ==
  /\ pc = "next"
  /\ todo = << >>
  /\ out' = out \o DoneMsgs(variant, lastCmd) \o << ReadyMsg(variant) >>
  /\ pc' = "idle"
  /\ UNCHANGED <<variant, lastCmd, params, todo, currentPose, servo, lastIn, moved>>
  /\ UNCHANGED frame

Next ==
  \/ Setup
  \/ LoopSkip
  \/ LoopTask
  \/ LoopReset
  \/ LoopDebug
  \/ DebugMove
  \/ LoopUnknown
  \/ Call
  \/ CommandDone
  \/ MoveStep
  \/ MoveSnap
  \/ MoveFinalWrite

Spec == Init /\ [][Next]_vars

\* ------------------------------------------- moveToPose called directly
\* step sizes tried: the guard range around zero, the callers' 2 and 3, and
\* the spec's scenario value 10
TestStepSizes == (-1 .. MaxStepSize) \cup {10}

\* a direct call moveToPose(tg, 10, ss) from the idle sketch
DirectCall ==
  /\ pc = "idle"
  /\ \E tg \in TestPoses, ss \in TestStepSizes : MoveBegin(tg, 10, ss)
  /\ UNCHANGED <<lastCmd, params, out, todo>>

\* the direct call has returned
DirectReturn ==
  /\ pc = "next"
  /\ pc' = "idle"
  /\ UNCHANGED <<variant, lastCmd, params, out, todo, currentPose, servo, lastIn, moved>>
  /\ UNCHANGED frame

NextMove ==
  \/ Setup
  \/ DirectCall
  \/ DirectReturn
  \/ MoveStep
  \/ MoveSnap
  \/ MoveFinalWrite

SpecMove == Init /\ [][NextMove]_vars

\* ---------------------------------------------------------------- claims
\* limits of the four clamped arm joints
LimitOf(v, j) ==
  CASE j = "base"     -> [min |-> BASE_MIN(v), max |-> BASE_MAX(v)]
    [] j = "shoulder" -> [min |-> SHOULDER_MIN(v), max |-> SHOULDER_MAX(v)]
    [] j = "elbow"    -> [min |-> ELBOW_MIN(v), max |-> ELBOW_MAX(v)]
    [] j = "wrist"    -> [min |-> WRIST_MIN(v), max |-> WRIST_MAX(v)]

ArmJoints == {"base", "shoulder", "elbow", "wrist"}

\* largest absolute per-joint difference of two poses
MaxAbsDiff(p, q) ==
  LET S == {abs(p[j] - q[j]) : j \in Joints}
  IN  CHOOSE m \in S : \A x \in S : x <= m

\* a moveToPose call is running or has just returned to its caller
Returned == pc = "next" /\ moved
InCall == pc \in {"loop", "write"} \/ Returned

\* C1: when moveToPose (stepSize > 0) returns, currentPose is the requested
\* target in all five fields, unclamped; and whenever the loop is idle,
\* currentPose is the target of the last completed move, or the home pose if
\* no move has run.
C1_ExactArrival ==
  /\ (Returned /\ stepSize > 0) => \A j \in Joints : currentPose[j] = target[j]
  /\ pc = "idle" => currentPose = IF moved THEN target ELSE homePose(variant)

\* C1 witness: a move to an out-of-range target has returned; the servos
\* hold clamped angles, currentPose the requested ones
C1_Witness ==
  /\ Returned
  /\ stepSize > 0
  /\ target = Pose(200, -5, 5, 90, 200)
  /\ currentPose = target
  /\ servo.base # currentPose.base

\* C2: a call with stepSize <= 0 treats the step size as 1: no division by
\* zero happens, the step count is at least 1, and the move is not cut short.
C2_StepGuard ==
  (InCall \/ pc = "crashed") /\ stepSize <= 0
    => /\ ~divZero
       /\ pc # "crashed"
       /\ steps >= 1

\* C3: every writePose call hands base, shoulder, elbow and wrist the value
\* clamp(v, min, max) for the joint's limits, which lies in [min, max].
C3_JointsClamped ==
  pc # "setup" =>
    \A j \in ArmJoints :
      LET lim == LimitOf(variant, j)
          v   == lastIn[j]
          w   == servo[j]
      IN  /\ w \in lim.min .. lim.max
          /\ v < lim.min => w = lim.min
          /\ v > lim.max => w = lim.max
          /\ v \in lim.min .. lim.max => w = v

\* C3 witness: limits [10,170]: 200 is written as 170, 5 as 10, 90 as 90
C3_Witness ==
  /\ pc # "setup"
  /\ LimitOf(variant, "base") = [min |-> 10, max |-> 170]
  /\ lastIn.base = 200 /\ servo.base = 170
  /\ lastIn.elbow = 5 /\ servo.elbow = 10
  /\ lastIn.wrist = 90 /\ servo.wrist = 90

\* C4: every writePose call hands the gripper servo a value in
\* [min(GRIPPER_OPEN, GRIPPER_CLOSE), max(GRIPPER_OPEN, GRIPPER_CLOSE)].
C4_GripperClamped ==
  pc # "setup" /\ stepSize > 0 =>
    LET o == GRIPPER_OPEN(variant)
        c == GRIPPER_CLOSE(variant)
    IN  servo.gripper \in (IF o < c THEN o ELSE c) .. (IF o < c THEN c ELSE o)

\* C5: with stepSize > 0 a call uses steps = max(1, floor(maxDelta / stepSize))
\* for maxDelta the largest absolute joint difference of target and start, and
\* makes exactly steps + 1 writePose calls and steps delays.
C5_StepCount ==
  InCall /\ stepSize > 0 =>
    /\ maxDelta = MaxAbsDiff(target, start)
    /\ steps = (IF maxDelta \div stepSize > 1 THEN maxDelta \div stepSize ELSE 1)
    /\ pc = "loop" => writes = i - 1 /\ delays = i - 1 /\ i <= steps + 1
    /\ pc = "write" => writes = steps /\ delays = steps
    /\ Returned => writes = steps + 1 /\ delays = steps

\* C5 witness: start (0,0,0,0,0), target (100,0,0,0,0), stepSize 2:
\* 50 steps, 51 writes, 50 delays
C5_Witness ==
  /\ Returned
  /\ start = Pose(0, 0, 0, 0, 0)
  /\ target = Pose(100, 0, 0, 0, 0)
  /\ stepSize = 2
  /\ steps = 50 /\ writes = 51 /\ delays = 50

\* C6 as claimed: a call with target = currentPose makes exactly one
\* writePose call, changes no servo angle and leaves currentPose as it was.
C6_OneEmission ==
  Returned /\ start = target /\ stepSize > 0 =>
    /\ writes = 1
    /\ servo = prevServo
    /\ currentPose = start

\* C6 amended: a call with target = currentPose and stepSize # 0 makes exactly
\* two writePose calls (the one loop iteration and the final write), both of
\* the target; no servo angle changes and currentPose stays as it was.
C6_TwoEmissions ==
  InCall /\ start = target /\ stepSize # 0 =>
    /\ steps = 1
    /\ writes >= 1 => servo = prevServo /\ lastIn = target
    /\ currentPose = start
    /\ Returned => writes = 2

\* C6 witness: such a call has returned after its two writes
C6_Witness ==
  /\ Returned
  /\ start = target
  /\ stepSize # 0
  /\ writes = 2
  /\ servo = prevServo

\* the debug line gives five integers first
FiveInts(line) == Len(line) >= 5 /\ \A k \in 1 .. 5 : line[k].int

Diagnostics == {FormatMsg, UnknownMsg("Main_Code"), UnknownMsg("part_000")}

\* C7: a debug line with fewer than five integers, and a command character
\* no case handles, cause no writePose call and leave currentPose alone; a
\* diagnostic is printed and the loop is ready for the next command.
C7_RejectedNoMotion ==
  [][ (\/ pc = "debug" /\ ~FiveInts(params)
       \/ pc = "idle" /\ lastCmd' \notin (Recognized(variant) \cup {"\n", "\r"}))
      => /\ servo' = servo
         /\ currentPose' = currentPose
         /\ writes' = writes
         /\ lastIn' = lastIn
         /\ pc' = "idle"
         /\ \E k \in 1 .. Len(out') : out'[k] \in Diagnostics
         /\ out'[Len(out')] = ReadyMsg(variant) ]_vars

\* C7 witness: a malformed debug line was reported after an earlier move,
\* and the arm is where that move left it
C7_Witness ==
  /\ pc = "idle"
  /\ lastCmd = "d"
  /\ out = << "Received command: ", FormatMsg, ReadyMsg(variant) >>
  /\ moved
  /\ currentPose = target
  /\ servo = writePose(variant, currentPose)

\* C8: in both sketches the pose written at step i is, for every joint,
\* start + trunc(delta * i / steps), the quotient truncated toward zero.
C8_TruncFormula ==
  pc = "loop" /\ i > 1 =>
    \A j \in Joints : lastIn[j] = start[j] + IntDiv(delta[j] * (i - 1), steps)

\* C9: currentPose keeps its entry value through every loop iteration and is
\* assigned once, after the loop and before the final write; no other step
\* (writePose, setup, a rejected command) changes it; the intermediate poses
\* are computed from the value currentPose had at entry.
C9_Frame ==
  [][ /\ pc = "loop" /\ i <= steps =>
           /\ assigns = 0
           /\ currentPose = start
           /\ currentPose' = currentPose
           /\ lastIn' = Intermediate(variant, currentPose,
                                     [j \in Joints |-> target[j] - currentPose[j]],
                                     i, steps)
      /\ currentPose' # currentPose =>
           /\ pc = "loop" /\ i > steps
           /\ writes = steps
           /\ currentPose' = target
           /\ servo' = servo /\ writes' = writes
      /\ assigns' # assigns =>
           (pc = "loop" /\ i > steps /\ assigns' = 1) \/ (assigns' = 0 /\ pc' # pc)
      /\ pc = "write" =>
           /\ assigns = 1
           /\ writes = steps
           /\ currentPose' = currentPose
           /\ writes' = steps + 1 ]_vars

\* C9 witness: several iterations done, currentPose just assigned, the final
\* write still to come
C9_Witness ==
  /\ pc = "write"
  /\ steps > 1
  /\ writes = steps
  /\ assigns = 1
  /\ currentPose = target
  /\ currentPose # start

\* C10: with stepSize > 0, at every step each joint's intermediate value lies
\* between start and target, never moves back toward start, and at the last
\* step every joint equals its target; with maxDelta < stepSize the single
\* loop emission is the final pose.
C10_NoOvershoot ==
  stepSize > 0 /\ pc = "loop" /\ i > 1 =>
    /\ \A j \in Joints :
         /\ \/ start[j] <= lastIn[j] /\ lastIn[j] <= target[j]
            \/ target[j] <= lastIn[j] /\ lastIn[j] <= start[j]
         /\ abs(lastIn[j] - start[j]) >= abs(prevInter[j] - start[j])
    /\ i = steps + 1 => lastIn = target
    /\ maxDelta < stepSize => steps = 1 /\ lastIn = target

\* C10 witness: base 90 -> 95 with stepSize 10: one loop emission, the target
C10_Witness ==
  /\ pc = "loop"
  /\ stepSize = 10
  /\ start.base = 90 /\ target.base = 95
  /\ maxDelta = 5
  /\ steps = 1 /\ i = 2
  /\ lastIn = target

====
